---- MODULE Spec2Model ----
(***************************************************************************)
(* daisysp::LoopBuffer<T, max_size> (src/loopbuffer.h): a fixed-capacity   *)
(* loop buffer with a write cursor, a read cursor, a logical length and a  *)
(* fractional accumulator.                                                 *)
(*                                                                         *)
(* float values (samples, frac_, speed, clipStart, clipEnd) are modelled   *)
(* as exact rationals <<n, d>> in lowest terms with d > 0; the inputs are  *)
(* dyadic, for which float arithmetic on these magnitudes is exact.        *)
(* size_t values are naturals below Word == 2^SizeBits and wrap there.     *)
(***************************************************************************)
EXTENDS Integers, Sequences, FiniteSets, TLC

\* template parameter max_size: the capacity of line_
max_size == 3
\* width of size_t in bits (cursor arithmetic wraps at 2^SizeBits)
SizeBits == 8
\* width of int in bits (the arguments of Splice)
IntBits == 5
\* knobs and speeds are multiples of 1/2^KnobBits
KnobBits == 1
\* the largest sample value written
MaxSample == 2
\* the calls one run of Spec makes
MaxSteps == 3
\* the longest recorded run of reads in the scenario specifications
MaxCalls == 5

Word == 2^SizeBits
KnobDen == 2^KnobBits

Inst == {"A", "B"}

---------------------------------------------------------------------------
\* exact rationals

RECURSIVE GCD(_, _)
GCD(a, b) == IF b = 0 THEN a ELSE GCD(b, a % b)

Abs(x) == IF x < 0 THEN -x ELSE x

Rat(n, d) ==
    LET s == IF d < 0 THEN -1 ELSE 1
        g == GCD(Abs(n), Abs(d))
    IN  IF n = 0 THEN <<0, 1>> ELSE <<(s * n) \div g, (s * d) \div g>>

RInt(n) == <<n, 1>>
Zero == RInt(0)
RAdd(x, y) == Rat(x[1] * y[2] + y[1] * x[2], x[2] * y[2])
RSub(x, y) == Rat(x[1] * y[2] - y[1] * x[2], x[2] * y[2])
RMul(x, y) == Rat(x[1] * y[1], x[2] * y[2])
RLess(x, y) == x[1] * y[2] < y[1] * x[2]
\* floor(x)
Floor(x) == x[1] \div x[2]
\* the float -> integer conversion of C++: truncation toward zero
Trunc(x) == IF x[1] >= 0 THEN x[1] \div x[2] ELSE -((-x[1]) \div x[2])
\* the conversion of an int to size_t
ToSize(i) == i % Word
\* the int range, and the value an overflowed int expression wraps to
IntMax == 2^(IntBits - 1) - 1
IntMin == -IntMax - 1
Overflows(i) == i > IntMax \/ i < IntMin
ToInt(i) == ((i - IntMin) % 2^IntBits) + IntMin

---------------------------------------------------------------------------
\* input domains

Samples == {RInt(v) : v \in 1..MaxSample}
\* clipStart, clipEnd in [0, 1]
Knobs == {Rat(k, KnobDen) : k \in 0..KnobDen}
\* speed in [-2.0, 2.0]
Speeds == {Rat(k, KnobDen) :
              k \in {-2 * KnobDen, -(KnobDen + 1), -1, 1, KnobDen, 2 * KnobDen}}
\* size_t arguments (lengths, positions): around the capacity, and the top word
Sizes == 0..(max_size + 1) \cup {Word - 1}
\* float lengths passed to Setlength
FloatLengths == {Rat(k, KnobDen) :
                    k \in {-KnobDen, -1, 1, KnobDen + 1, 2 * KnobDen,
                           max_size * KnobDen + 1}}
\* minClip >= 1 by the caller contract
MinClips == {1, max_size + 1}
\* what a fetch past the end of line_ may find
Garbage == {Zero, RInt(MaxSample + 1)}

---------------------------------------------------------------------------
\* the object: float frac_; size_t write_ptr_, read_ptr_, length_; T line_[max_size]
\* (line_[i] of the source is line_[i + 1] here)

\* the outcome of one call: the object after it, the value returned, and the
\* undefined behaviour it ran into ("none", "div0": a modulo by zero, "oob": an
\* access outside line_, "overflow": a signed integer overflow)
Res(b, ret, ub) == [b |-> b, ret |-> ret, ub |-> ub]

\* x % m on size_t; a zero divisor is undefined behaviour: where the build does
\* not trap, the quotient is 0 and the remainder is x
Mod(x, m) == IF m = 0 THEN x ELSE x % m

\* line_[i]; past the end of line_ the fetch finds g
Fetch(b, i, g) == IF i < max_size THEN b.line_[i + 1] ELSE g

\* (size_t)(knob * n): the float product, truncated
Scale(knob, n) == Trunc(RMul(knob, RInt(n)))

Reset(b) ==
    [b EXCEPT !.write_ptr_ = 0, !.read_ptr_ = 0, !.length_ = 1, !.frac_ = Zero]

InitBuffer ==
    Reset([frac_ |-> Zero, write_ptr_ |-> 0, read_ptr_ |-> 0, length_ |-> 0,
           line_ |-> [i \in 1..max_size |-> Zero]])

SetLength(b, length) ==
    [b EXCEPT !.frac_ = Zero,
              !.length_ = IF length < max_size THEN length ELSE max_size]

Setlength(b, length) ==
    LET int_length == Trunc(length)
    IN  [b EXCEPT !.frac_ = RSub(length, RInt(int_length)),
                  !.length_ = IF ToSize(int_length) < max_size
                              THEN ToSize(int_length)
                              ELSE max_size - 1]

GetLength(b) == RAdd(RInt(b.length_), b.frac_)

\* the second assignment of the source compares a size_t with 0 and never fires
SetReadPosition(b, position) ==
    [b EXCEPT !.read_ptr_ = IF position >= b.length_
                            THEN position
                            ELSE ToSize(b.length_ - 1)]

GetReadPosition(b) == b.read_ptr_

GetWritePosition(b) == b.write_ptr_

\* Write with the length set to the cursor itself instead of one past it
WriteLengthAtCursor(b, sample) ==
    LET wp == (b.write_ptr_ + 1) % max_size
    IN  [b EXCEPT !.line_[b.write_ptr_ + 1] = sample,
                  !.write_ptr_ = wp,
                  !.length_ = IF wp >= b.length_ THEN wp ELSE b.length_]

\* Write with the length following the cursor without the growth test
WriteLengthFollowsCursor(b, sample) ==
    LET wp == (b.write_ptr_ + 1) % max_size
    IN  [b EXCEPT !.line_[b.write_ptr_ + 1] = sample,
                  !.write_ptr_ = wp,
                  !.length_ = wp + 1]

Write(b, sample) ==
    LET wp == (b.write_ptr_ + 1) % max_size
    IN  [b EXCEPT !.line_[b.write_ptr_ + 1] = sample,
                  !.write_ptr_ = wp,
                  !.length_ = IF wp >= b.length_ THEN wp + 1 ELSE b.length_]

\* Read fetching after the cursor has advanced
ReadAdvanceFirst(b, g) ==
    LET rp == Mod(ToSize(b.read_ptr_ + 1), b.length_)
    IN  Res([b EXCEPT !.read_ptr_ = rp],
            Fetch(b, rp, g),
            IF b.length_ = 0 THEN "div0" ELSE IF rp >= max_size THEN "oob" ELSE "none")

Read(b, g) ==
    LET i == Mod(b.read_ptr_, b.length_)
    IN  Res([b EXCEPT !.read_ptr_ = Mod(ToSize(b.read_ptr_ + 1), b.length_)],
            Fetch(b, i, g),
            IF b.length_ = 0 THEN "div0" ELSE IF i >= max_size THEN "oob" ELSE "none")

ReadOnce(b) ==
    LET a == IF b.read_ptr_ < b.length_
             THEN b.line_[(b.read_ptr_ % b.length_) + 1]
             ELSE Zero
    IN  Res([b EXCEPT !.read_ptr_ = IF b.read_ptr_ < ToSize(b.length_ - 1)
                                    THEN b.read_ptr_ + 1
                                    ELSE b.read_ptr_],
            a, "none")

\* Read(float clipEnd, size_t minClip)
Read2(b, clipEnd, minClip, g) ==
    LET scaled == Scale(clipEnd, b.length_)
        newEnd == IF scaled < minClip THEN minClip ELSE scaled
        i      == Mod(b.read_ptr_, newEnd)
    IN  Res([b EXCEPT !.read_ptr_ = Mod(ToSize(b.read_ptr_ + 1), newEnd)],
            Fetch(b, i, g),
            IF newEnd = 0 THEN "div0" ELSE IF i >= max_size THEN "oob" ELSE "none")

\* Read(float clipStart, float clipEnd, size_t minClip)
Read3(b, clipStart, clipEnd, minClip, g) ==
    LET scaled == Scale(clipEnd, b.length_)
        newEnd == IF scaled < minClip THEN minClip ELSE scaled
        offset == Scale(clipStart, b.length_)
        i      == Mod(ToSize(b.read_ptr_ + offset), b.length_)
    IN  Res([b EXCEPT !.read_ptr_ = Mod(ToSize(b.read_ptr_ + 1), newEnd)],
            Fetch(b, i, g),
            IF b.length_ = 0 \/ newEnd = 0 THEN "div0"
            ELSE IF i >= max_size THEN "oob" ELSE "none")

\* the function-local statics of the two randomized Read overloads: one copy
\* of each per LoopBuffer<T, max_size> specialization, shared by its objects
InitStatics == [newEnd5 |-> 0, offset5 |-> 0, newEnd6 |-> 0, offset6 |-> 0]

ResS(b, st, ret, ub) == [b |-> b, st |-> st, ret |-> ret, ub |-> ub]

\* a boundary check that only raises the window end to minClip
ClampFloorOnly(newEnd, minClip, length) ==
    IF newEnd < minClip THEN minClip ELSE newEnd

\* the "boundary check" of the randomized reads
ClampEnd(newEnd, minClip, length) ==
    LET floored == IF newEnd < minClip THEN minClip ELSE newEnd
    IN  IF floored >= length THEN length ELSE floored

\* the offset kept from the call before wherever the read position is not 0
Offset5Stale(b, st, clipStart, randomStart, r) ==
    IF GetReadPosition(b) = 0
    THEN Scale(clipStart, IF randomStart THEN Mod(r, b.length_) ELSE b.length_)
    ELSE st.offset5

\* an offset rolled again on every call
Offset5EveryCall(b, st, clipStart, randomStart, r) ==
    Scale(clipStart, IF randomStart THEN Mod(r, b.length_) ELSE b.length_)

\* the offset of Read(clipStart, clipEnd, minClip, randomLength, randomStart);
\* r is the value rand() returns
Offset5(b, st, clipStart, randomStart, r) ==
    IF ~randomStart
    THEN Scale(clipStart, b.length_)
    ELSE IF GetReadPosition(b) = 0
         THEN Scale(clipStart, Mod(r, b.length_))
         ELSE st.offset5

\* its window end before the boundary check
NewEnd5(b, st, clipEnd, randomLength, r) ==
    IF ~randomLength
    THEN Scale(clipEnd, b.length_)
    ELSE IF GetReadPosition(b) = 0
         THEN Scale(clipEnd, Mod(r, b.length_))
         ELSE st.newEnd5

\* Read(float clipStart, float clipEnd, size_t minClip, bool randomLength,
\*      bool randomStart); r1 and r2 are the values of its two rand() calls
Read5(b, st, clipStart, clipEnd, minClip, randomLength, randomStart, r1, r2, g) ==
    LET offset == Offset5(b, st, clipStart, randomStart, r1)
        newEnd == ClampEnd(NewEnd5(b, st, clipEnd, randomLength, r2),
                           minClip, b.length_)
        i      == Mod(ToSize(b.read_ptr_ + offset), b.length_)
    IN  ResS([b EXCEPT !.read_ptr_ = Mod(ToSize(b.read_ptr_ + 1), newEnd)],
             [st EXCEPT !.offset5 = offset, !.newEnd5 = newEnd],
             Fetch(b, i, g),
             IF b.length_ = 0 \/ newEnd = 0 THEN "div0"
             ELSE IF i >= max_size THEN "oob" ELSE "none")

\* "hack to get rid of clicks": the floor of a re-rolled offset
ClickFloor == 10

Offset6(b, st, clipStart, randomStart, r) ==
    IF ~randomStart
    THEN Scale(clipStart, b.length_)
    ELSE IF GetReadPosition(b) = 0
         THEN LET rolled == Scale(clipStart, Mod(r, b.length_))
              IN  IF rolled < ClickFloor THEN ClickFloor ELSE rolled
         ELSE st.offset6

NewEnd6(b, st, clipEnd, randomLength, r) ==
    IF ~randomLength
    THEN Scale(clipEnd, b.length_)
    ELSE IF GetReadPosition(b) = 0
         THEN Scale(clipEnd, Mod(r, b.length_))
         ELSE st.newEnd6

\* a guard that lets a one-sample loop through
NotEmpty(b) == b.length_ > 0

\* the guard of the speed-interpolated windowed read
LongerThanOne(b) == b.length_ > 1

\* Read(float clipStart, float clipEnd, float speed, size_t minClip,
\*      bool randomLength, bool randomStart)
Read6(b, st, clipStart, clipEnd, speed, minClip, randomLength, randomStart, r1, r2, g) ==
    IF LongerThanOne(b)
    THEN LET offset  == Offset6(b, st, clipStart, randomStart, r1)
             newEnd  == ClampEnd(NewEnd6(b, st, clipEnd, randomLength, r2),
                                 minClip, b.length_)
             rpo     == ToSize(b.read_ptr_ + offset)
             ia      == Mod(rpo, b.length_)
             ib      == IF ~RLess(speed, Zero)
                        THEN Mod(ToSize(rpo + 1), b.length_)
                        ELSE Mod(ToSize(rpo - 1), b.length_)
             a       == Fetch(b, ia, g)
             bb      == IF ~RLess(speed, Zero) \/ ToSize(rpo - 1) > 0
                        THEN Fetch(b, ib, g)
                        ELSE RInt(b.length_ - 1)
             sum     == RAdd(speed, b.frac_)
             intpart == Trunc(sum)
             frac    == RSub(sum, RInt(intpart))
         IN  ResS([b EXCEPT !.frac_ = frac,
                            !.read_ptr_ = Mod(ToSize(b.read_ptr_ + ToSize(intpart)),
                                              newEnd)],
                  [st EXCEPT !.offset6 = offset, !.newEnd6 = newEnd],
                  RAdd(a, RMul(RSub(bb, a), frac)),
                  IF newEnd = 0 THEN "div0"
                  ELSE IF ia >= max_size \/ ib >= max_size THEN "oob" ELSE "none")
    ELSE ResS(b, st, Zero, "none")

\* ReadSpeed fetching at the read position before advancing it
ReadSpeedFetchFirst(b, speed, g) ==
    LET sum  == RAdd(speed, b.frac_)
        rp   == Mod(ToSize(b.read_ptr_ + ToSize(Floor(sum))), b.length_)
        frac == RSub(sum, RInt(Trunc(sum)))
        ia   == Mod(b.read_ptr_, b.length_)
        ib   == Mod(ToSize(b.read_ptr_ + 1), b.length_)
        a    == Fetch(b, ia, g)
        bb   == Fetch(b, ib, g)
    IN  Res([b EXCEPT !.read_ptr_ = rp, !.frac_ = frac],
            RAdd(a, RMul(RSub(bb, a), frac)),
            IF b.length_ = 0 THEN "div0"
            ELSE IF ia >= max_size \/ ib >= max_size THEN "oob" ELSE "none")

ReadSpeed(b, speed, g) ==
    LET sum  == RAdd(speed, b.frac_)
        rp   == Mod(ToSize(b.read_ptr_ + ToSize(Floor(sum))), b.length_)
        frac == RSub(sum, RInt(Trunc(sum)))
        ia   == Mod(rp, b.length_)
        ib   == Mod(ToSize(rp + 1), b.length_)
        a    == Fetch(b, ia, g)
        bb   == Fetch(b, ib, g)
    IN  Res([b EXCEPT !.read_ptr_ = rp, !.frac_ = frac],
            RAdd(a, RMul(RSub(bb, a), frac)),
            IF b.length_ = 0 THEN "div0"
            ELSE IF ia >= max_size \/ ib >= max_size THEN "oob" ELSE "none")

\* line_[idx] *= (float)i / (float)fadeLength, for an int index idx; a store
\* outside line_ leaves line_ as it is (and is undefined behaviour)
InLine(idx) == idx >= 0 /\ idx < max_size

\* a ramp that falls from 1 instead of rising from 0
RampDown(line, idx, i, fadeLength) ==
    IF InLine(idx)
    THEN [line EXCEPT ![idx + 1] = RMul(@, Rat(fadeLength - i, fadeLength))]
    ELSE line

Ramp(line, idx, i, fadeLength) ==
    IF InLine(idx)
    THEN [line EXCEPT ![idx + 1] = RMul(@, Rat(i, fadeLength))]
    ELSE line

\* the fade constant of Splice()
FadeLength == 2048

\* the iterations of a fade loop that can touch line_: with i >= max_size both
\* line_[i] and line_[(length_ - 1) - i] lie outside it
FadeSteps(fadeLength) == IF fadeLength < max_size THEN fadeLength ELSE max_size

\* the loop of Splice(), iterations i .. n-1, in order
RECURSIVE SpliceLoop(_, _, _, _, _)
SpliceLoop(line, length, fadeLength, i, n) ==
    IF i >= n
    THEN line
    ELSE LET head == Ramp(line, i, i, fadeLength)
             tail == Ramp(head, ToSize(ToSize(length - 1) - i), i, fadeLength)
         IN  SpliceLoop(tail, length, fadeLength, i + 1, n)

\* the body of Splice() for the value fadeLength of its local fade constant
SpliceFade(b, fadeLength) ==
    LET n == FadeSteps(fadeLength)
    IN  Res([b EXCEPT !.line_ = SpliceLoop(b.line_, b.length_, fadeLength, 0, n)],
            Zero,
            IF \/ fadeLength > max_size
               \/ \E i \in 0..(n - 1) : ToSize(ToSize(b.length_ - 1) - i) >= max_size
            THEN "oob" ELSE "none")

Splice(b) == SpliceFade(b, FadeLength)

\* the guard of Splice(int fadeLength, int startPoint, int endPoint)
\* (2*fadeLength is an int product: past the int range it is undefined, and
\* wraps where the build computes it)
SpliceGuard(b, fadeLength, startPoint, endPoint) ==
    /\ ToInt(2 * fadeLength) < b.length_
    /\ startPoint >= 0
    /\ endPoint < b.length_

\* its fade loop, iterations i .. fadeLength-1, in order
RECURSIVE Splice3Loop(_, _, _, _, _)
Splice3Loop(line, fadeLength, startPoint, endPoint, i) ==
    IF i >= fadeLength
    THEN line
    ELSE Splice3Loop(Ramp(Ramp(line, startPoint + i, i, fadeLength),
                          endPoint - i, i, fadeLength),
                     fadeLength, startPoint, endPoint, i + 1)

\* "zero out remaining portion of the buffer"
ZeroTail(line, endPoint, length) ==
    [k \in 1..max_size |->
        IF k - 1 >= endPoint /\ k - 1 < length THEN Zero ELSE line[k]]

\* the indices of line_ a call that passes the guard stores to
Splice3Writes(b, fadeLength, startPoint, endPoint) ==
    UNION {{startPoint + i, endPoint - i} : i \in 0..(fadeLength - 1)}
        \cup endPoint..(b.length_ - 1)

Splice3(b, fadeLength, startPoint, endPoint) ==
    LET over == IF Overflows(2 * fadeLength) THEN "overflow" ELSE "none"
    IN  IF SpliceGuard(b, fadeLength, startPoint, endPoint)
        THEN Res([b EXCEPT !.line_ =
                      ZeroTail(Splice3Loop(b.line_, fadeLength, startPoint,
                                           endPoint, 0),
                               endPoint, b.length_)],
                 Zero,
                 IF over # "none" THEN over
                 ELSE IF \E idx \in Splice3Writes(b, fadeLength, startPoint,
                                                    endPoint) : ~InLine(idx)
                      THEN "oob" ELSE "none")
        ELSE Res(b, Zero, over)

---------------------------------------------------------------------------
\* the state

VARIABLES
    buf,        \* the LoopBuffer objects, by name
    stat,       \* the statics of the randomized reads, shared by the objects
    solo,       \* object B as it is in a program that never calls on A
    soloStat,   \* the statics of that program
    fault,      \* the undefined behaviour the program ran into, or "none"
    last,       \* the last call: object, operation, arguments, value returned
    steps,      \* the calls the run may still make (Unbounded: no limit)
    hist,       \* the samples written, in order (scenario specifications)
    outs,       \* the values the reads of each object returned, in order
    twin        \* the last call on solo: the value returned, and before it the read
                \* position, whether both random flags were false, whether B and
                \* solo held the same loop, whether the statics' offsets differed

vars == <<buf, stat, solo, soloStat, fault, last, steps, hist, outs, twin>>

Unbounded == 0 - 1

NoCall == [inst |-> "A", op |-> "Init", args |-> <<>>, ret |-> Zero]
NoTwin == [ret |-> Zero, at |-> 0, fixed |-> FALSE, same |-> FALSE, apart |-> FALSE]

\* the state after construction and Init(), with n calls to go
InitWith(n) ==
    /\ buf = [i \in Inst |-> InitBuffer]
    /\ stat = InitStatics
    /\ solo = InitBuffer
    /\ soloStat = InitStatics
    /\ fault = "none"
    /\ last = NoCall
    /\ steps = n
    /\ hist = <<>>
    /\ outs = [i \in Inst |-> <<>>]
    /\ twin = NoTwin

\* the program stops at the first undefined behaviour
Running == fault = "none" /\ steps # 0

\* what a call that ran into undefined behaviour may do: trap, leaving the
\* object as it was, or run on with the outcome computed above
Outcomes(ub) == IF ub = "none" THEN {"run"} ELSE {"trap", "run"}

\* a call on object i with outcome r (of ResS)
Call(i, op, args, r) ==
    /\ \E o \in Outcomes(r.ub) :
          /\ buf' = IF o = "trap" THEN buf ELSE [buf EXCEPT ![i] = r.b]
          /\ stat' = IF o = "trap" THEN stat ELSE r.st
          /\ last' = [inst |-> i, op |-> op, args |-> args,
                      ret |-> IF o = "trap" THEN Zero ELSE r.ret]
    /\ fault' = r.ub
    /\ steps' = IF steps = Unbounded THEN Unbounded ELSE steps - 1

\* the outcome of a call that returns nothing and cannot fail
Done(b) == ResS(b, stat, Zero, "none")
\* the outcome of a call that does not touch the statics
Plain(r) == ResS(r.b, stat, r.ret, r.ub)

Ghosts == <<solo, soloStat, hist, outs, twin>>

\* a call's arguments are recorded in `last` where a property reads them
Kept(keep, args) == IF keep THEN args ELSE <<>>

\* what lies past line_ is read only by a fetch outside it
Junk(ub) == IF ub = "oob" THEN Garbage ELSE {Zero}

\* the values rand() % length_ can take are covered by rand() in 0..length_-1
\* (in 0..max_size-1 for the undefined rand() % 0); rand() is called only for
\* a random knob at read position 0
Rands(b, random) ==
    IF random /\ GetReadPosition(b) = 0
    THEN 0..((IF b.length_ = 0 THEN max_size ELSE b.length_) - 1)
    ELSE {0}

\* int arguments of Splice around the loop bounds, and the least fadeLength
\* whose double is past the int range
FadeLengths == -1..((max_size \div 2) + 1) \cup {2^(IntBits - 2)}
Points == -1..max_size

---------------------------------------------------------------------------
\* Spec: every public operation, on one object

DoInit(i) ==
    /\ Running
    /\ Call(i, "Init", <<>>, Done(InitBuffer))
    /\ UNCHANGED Ghosts

DoReset(i) ==
    /\ Running
    /\ Call(i, "Reset", <<>>, Done(Reset(buf[i])))
    /\ UNCHANGED Ghosts

DoSetLength(i) ==
    /\ Running
    /\ \E length \in Sizes :
          Call(i, "SetLength", <<>>, Done(SetLength(buf[i], length)))
    /\ UNCHANGED Ghosts

DoSetlength(i) ==
    /\ Running
    /\ \E length \in FloatLengths :
          Call(i, "Setlength", <<>>, Done(Setlength(buf[i], length)))
    /\ UNCHANGED Ghosts

DoSetReadPosition(i) ==
    /\ Running
    /\ \E position \in Sizes :
          Call(i, "SetReadPosition", <<>>,
               Done(SetReadPosition(buf[i], position)))
    /\ UNCHANGED Ghosts

DoWrite(i) ==
    /\ Running
    /\ \E sample \in Samples :
          Call(i, "Write", <<>>, Done(Write(buf[i], sample)))
    /\ UNCHANGED Ghosts

DoRead(i) ==
    /\ Running
    /\ \E g \in Junk(Read(buf[i], Zero).ub) :
          Call(i, "Read", <<>>, Plain(Read(buf[i], g)))
    /\ UNCHANGED Ghosts

DoReadOnce(i) ==
    /\ Running
    /\ Call(i, "ReadOnce", <<>>, Plain(ReadOnce(buf[i])))
    /\ UNCHANGED Ghosts

DoRead2(i) ==
    /\ Running
    /\ \E clipEnd \in Knobs, minClip \in MinClips :
          \E g \in Junk(Read2(buf[i], clipEnd, minClip, Zero).ub) :
              Call(i, "Read2", <<>>,
                   Plain(Read2(buf[i], clipEnd, minClip, g)))
    /\ UNCHANGED Ghosts

DoRead3(i) ==
    /\ Running
    /\ \E clipStart \in Knobs, clipEnd \in Knobs, minClip \in MinClips :
          \E g \in Junk(Read3(buf[i], clipStart, clipEnd, minClip, Zero).ub) :
              Call(i, "Read3", <<>>,
                   Plain(Read3(buf[i], clipStart, clipEnd, minClip, g)))
    /\ UNCHANGED Ghosts

DoRead5(i, keep) ==
    /\ Running
    /\ \E clipStart \in Knobs, clipEnd \in Knobs, minClip \in MinClips,
          randomLength \in BOOLEAN, randomStart \in BOOLEAN :
          \E r1 \in Rands(buf[i], randomStart), r2 \in Rands(buf[i], randomLength) :
              \E g \in Junk(Read5(buf[i], stat, clipStart, clipEnd, minClip,
                                  randomLength, randomStart, r1, r2, Zero).ub) :
                  Call(i, "Read5",
                       Kept(keep, <<clipStart, clipEnd, minClip,
                                    randomLength, randomStart>>),
                       Read5(buf[i], stat, clipStart, clipEnd, minClip,
                             randomLength, randomStart, r1, r2, g))
    /\ UNCHANGED Ghosts

DoRead6(i, keep) ==
    /\ Running
    /\ \E clipStart \in Knobs, clipEnd \in Knobs, speed \in Speeds,
          minClip \in MinClips, randomLength \in BOOLEAN, randomStart \in BOOLEAN :
          \E r1 \in Rands(buf[i], randomStart), r2 \in Rands(buf[i], randomLength) :
              \E g \in Junk(Read6(buf[i], stat, clipStart, clipEnd, speed, minClip,
                                  randomLength, randomStart, r1, r2, Zero).ub) :
                  Call(i, "Read6",
                       Kept(keep, <<clipStart, clipEnd, speed, minClip,
                                    randomLength, randomStart>>),
                       Read6(buf[i], stat, clipStart, clipEnd, speed, minClip,
                             randomLength, randomStart, r1, r2, g))
    /\ UNCHANGED Ghosts

DoReadSpeed(i) ==
    /\ Running
    /\ \E speed \in Speeds :
          \E g \in Junk(ReadSpeed(buf[i], speed, Zero).ub) :
              Call(i, "ReadSpeed", <<>>, Plain(ReadSpeed(buf[i], speed, g)))
    /\ UNCHANGED Ghosts

DoSplice(i) ==
    /\ Running
    /\ Call(i, "Splice", <<>>, Plain(Splice(buf[i])))
    /\ UNCHANGED Ghosts

DoSplice3(i, keep) ==
    /\ Running
    /\ \E fadeLength \in FadeLengths, startPoint \in Points, endPoint \in Points :
          Call(i, "Splice3", Kept(keep, <<fadeLength, startPoint, endPoint>>),
               Plain(Splice3(buf[i], fadeLength, startPoint, endPoint)))
    /\ UNCHANGED Ghosts

Init == InitWith(MaxSteps)

Next ==
    \/ DoInit("A")
    \/ DoReset("A")
    \/ DoSetLength("A")
    \/ DoSetlength("A")
    \/ DoSetReadPosition("A")
    \/ DoWrite("A")
    \/ DoRead("A")
    \/ DoReadOnce("A")
    \/ DoRead2("A")
    \/ DoRead3("A")
    \/ DoRead5("A", FALSE)
    \/ DoRead6("A", FALSE)
    \/ DoReadSpeed("A")
    \/ DoSplice("A")
    \/ DoSplice3("A", FALSE)

Spec == Init /\ [][Next]_vars

---------------------------------------------------------------------------
\* C1: in every reachable state the logical loop length satisfies
\* 1 <= length_ <= max_size.
LengthInRange ==
    /\ 1 <= buf["A"].length_
    /\ buf["A"].length_ <= max_size

\* C6: no Read variant evaluates a modulo with a zero divisor, whatever the
\* public operations called before it, every minClip being >= 1.
NoZeroDivisor == fault # "div0"

---------------------------------------------------------------------------
\* WriteSpec: from Init(), a run of Write calls, then (while fewer than
\* max_size samples are written) a run of plain Read calls

WriteCap == 2 * max_size + 1

\* Write(sample), recorded in hist
RecWrite ==
    /\ Running
    /\ outs["A"] = <<>>
    /\ Len(hist) < WriteCap
    /\ \E sample \in Samples :
          /\ Call("A", "Write", <<>>, Done(Write(buf["A"], sample)))
          /\ hist' = Append(hist, sample)
    /\ UNCHANGED <<solo, soloStat, outs, twin>>

\* Read(), its value recorded in outs
RecRead ==
    /\ Running
    /\ Len(hist) < max_size
    /\ Len(outs["A"]) < Len(hist)
    /\ \E g \in Junk(Read(buf["A"], Zero).ub) :
          Call("A", "Read", <<>>, Plain(Read(buf["A"], g)))
    /\ outs' = [outs EXCEPT !["A"] = Append(@, last'.ret)]
    /\ UNCHANGED <<solo, soloStat, hist, twin>>

WriteInit == InitWith(Unbounded)

WriteNext == RecWrite \/ RecRead

WriteSpec == WriteInit /\ [][WriteNext]_vars

\* C2: after N < max_size writes from Init(), the k-th of N plain reads
\* returns the k-th sample written.
ReadsReturnWrites ==
    \A k \in 1..Len(outs["A"]) : outs["A"][k] = hist[k]

\* all N = max_size - 1 samples read back, the first two being different
ReadsReturnWritesWitness ==
    /\ Len(hist) = max_size - 1
    /\ Len(outs["A"]) = Len(hist)
    /\ hist[1] # hist[2]

\* C3 as stated: after N writes (1 <= N < max_size) and nothing else,
\* GetLength() is N.
LengthIsCount ==
    (outs["A"] = <<>> /\ 1 <= Len(hist) /\ Len(hist) < max_size)
        => GetLength(buf["A"]) = RInt(Len(hist))

\* C3 amended: after N writes (1 <= N < max_size) and nothing else,
\* GetLength() is N + 1.
LengthIsCountPlusOne ==
    (outs["A"] = <<>> /\ 1 <= Len(hist) /\ Len(hist) < max_size)
        => GetLength(buf["A"]) = RInt(Len(hist) + 1)

LengthIsCountPlusOneWitness ==
    /\ outs["A"] = <<>>
    /\ Len(hist) = max_size - 1
    /\ GetLength(buf["A"]) = RInt(max_size)

\* the index in hist of the newest sample written to line_[i], n samples written
Newest(n, i) ==
    CHOOSE j \in 1..n :
        /\ (j - 1) % max_size = i
        /\ \A k \in 1..n : (k - 1) % max_size = i => k <= j

\* C4: after n >= max_size writes from Init(), length_ is max_size,
\* write_ptr_ is n mod max_size and line_[i] holds the newest sample s_j with
\* j mod max_size = i; further writes keep length_ at max_size.
SaturatedAfterWrap ==
    (outs["A"] = <<>> /\ Len(hist) >= max_size) =>
        /\ buf["A"].length_ = max_size
        /\ GetWritePosition(buf["A"]) = Len(hist) % max_size
        /\ \A i \in 0..(max_size - 1) :
              buf["A"].line_[i + 1] = hist[Newest(Len(hist), i)]

\* the write cursor has wrapped twice and line_[0] was overwritten by a
\* different sample
SaturatedAfterWrapWitness ==
    /\ Len(hist) = WriteCap
    /\ hist[1] # hist[max_size + 1]
    /\ hist[max_size + 1] # hist[2 * max_size + 1]

---------------------------------------------------------------------------
\* OnceSpec: from Init(), a run of Write calls, then a run of ReadOnce calls
\* (the read cursor is 0 at the first of them, the length fixed from there)

\* ReadOnce(), its value recorded in outs
PlayOnce ==
    /\ Running
    /\ Len(outs["A"]) < MaxCalls
    /\ Call("A", "ReadOnce", <<>>, Plain(ReadOnce(buf["A"])))
    /\ outs' = [outs EXCEPT !["A"] = Append(@, last'.ret)]
    /\ UNCHANGED <<solo, soloStat, hist, twin>>

OnceNext == RecWrite \/ PlayOnce

OnceSpec == WriteInit /\ [][OnceNext]_vars

\* C5: from read cursor 0 and a fixed length L, the k-th ReadOnce() returns
\* line_[k-1] for k <= L and 0 for every k > L, and the read cursor never
\* passes L-1.
OnceThenSilence ==
    /\ \A k \in 1..Len(outs["A"]) :
          outs["A"][k] = IF k <= buf["A"].length_
                         THEN buf["A"].line_[k]
                         ELSE Zero
    /\ GetReadPosition(buf["A"]) <= buf["A"].length_ - 1

---------------------------------------------------------------------------
\* SpliceSpec: from Init(), a run of Write calls, then one
\* Splice(fadeLength, startPoint, endPoint)

SpliceWrite ==
    /\ last.op # "Splice3"
    /\ RecWrite

SpliceCall ==
    /\ last.op # "Splice3"
    /\ DoSplice3("A", TRUE)

SpliceNext == SpliceWrite \/ SpliceCall

SpliceSpec == WriteInit /\ [][SpliceNext]_vars

\* a precondition of the guarded Splice fails
Refused(b, args) ==
    \/ 2 * args[1] >= b.length_
    \/ args[2] < 0
    \/ args[3] >= b.length_

\* C8: Splice(fadeLength, startPoint, endPoint) called with 2*fadeLength >=
\* length, startPoint < 0 or endPoint >= length leaves line_, length_, both
\* cursors and frac_ as they were.
RefusedSpliceIsNoOp ==
    [][(last'.op = "Splice3" /\ Refused(buf["A"], last'.args))
           => buf'["A"] = buf["A"]]_vars

---------------------------------------------------------------------------
\* SpeedSpec: objects A and B are recorded from Init(); once they are in the
\* same state, A is played by Read() and B by ReadSpeed(1.0)

Playing == outs["A"] # <<>> \/ outs["B"] # <<>>

\* Write(sample) on either object, before the playback
SpeedWrite(i) ==
    /\ ~Playing
    /\ DoWrite(i)

\* Read() on A, its value recorded in outs
SpeedRead ==
    /\ Running
    /\ Playing \/ buf["A"] = buf["B"]
    /\ Len(outs["A"]) < MaxCalls
    /\ \E g \in Junk(Read(buf["A"], Zero).ub) :
          Call("A", "Read", <<>>, Plain(Read(buf["A"], g)))
    /\ outs' = [outs EXCEPT !["A"] = Append(@, last'.ret)]
    /\ UNCHANGED <<solo, soloStat, hist, twin>>

\* ReadSpeed(1.0) on B, its value recorded in outs
SpeedReadSpeed ==
    /\ Running
    /\ Playing \/ buf["A"] = buf["B"]
    /\ Len(outs["B"]) < MaxCalls
    /\ \E g \in Junk(ReadSpeed(buf["B"], RInt(1), Zero).ub) :
          Call("B", "ReadSpeed", <<>>, Plain(ReadSpeed(buf["B"], RInt(1), g)))
    /\ outs' = [outs EXCEPT !["B"] = Append(@, last'.ret)]
    /\ UNCHANGED <<solo, soloStat, hist, twin>>

SpeedNext ==
    \/ SpeedWrite("A")
    \/ SpeedWrite("B")
    \/ SpeedRead
    \/ SpeedReadSpeed

SpeedSpec == WriteInit /\ [][SpeedNext]_vars

\* C9 as stated: from the same state with frac_ = 0, the k-th ReadSpeed(1.0)
\* returns what the k-th Read() returns.
SameSequence ==
    \A k \in 1..Len(outs["B"]) :
        k <= Len(outs["A"]) => outs["B"][k] = outs["A"][k]

\* C9 amended: from the same state with frac_ = 0, the k-th ReadSpeed(1.0)
\* returns what the (k+1)-th Read() returns.
OneSampleAhead ==
    \A k \in 1..Len(outs["B"]) :
        k + 1 <= Len(outs["A"]) => outs["B"][k] = outs["A"][k + 1]

\* both playbacks have gone once round a loop of max_size samples whose first
\* two samples differ
OneSampleAheadWitness ==
    /\ buf["A"].length_ = max_size
    /\ Len(outs["B"]) >= max_size
    /\ Len(outs["A"]) >= max_size + 1
    /\ outs["A"][1] # outs["A"][2]
    /\ outs["B"][1] = outs["A"][2]

---------------------------------------------------------------------------
\* TwoSpec: objects A and B of one LoopBuffer<T, max_size> are recorded from
\* Init(), A and then B, B's read cursor is moved by plain Read calls, and
\* then both are played, in any interleaving, by the two randomized Read
\* overloads (MaxSteps - 1 such reads in all).  solo and soloStat are B and the
\* statics in the program that makes the same calls on B and none on A.

SameLoop(b, c) ==
    /\ b.line_ = c.line_
    /\ b.length_ = c.length_
    /\ b.read_ptr_ = c.read_ptr_

\* the speed and the minClip of the randomized reads of TwoSpec, and the
\* sample recorded on A
UnitSpeed == {RInt(1)}
UnitClip == {1}
Tone == {RInt(1)}

\* rand() as Rands, where either program's B calls it
TwoRands(i, random) ==
    IF i = "B" THEN Rands(buf[i], random) \cup Rands(solo, random)
    ELSE Rands(buf[i], random)

\* Write(sample) on A, before anything else (not counted in steps)
TwoWriteA ==
    /\ Running
    /\ last.inst = "A" /\ last.op \in {"Init", "Write"}
    /\ GetWritePosition(buf["A"]) < max_size - 1
    /\ \E sample \in Tone :
          buf' = [buf EXCEPT !["A"] = Write(buf["A"], sample)]
    /\ last' = [inst |-> "A", op |-> "Write", args |-> <<>>, ret |-> Zero]
    /\ UNCHANGED <<stat, solo, soloStat, fault, steps, hist, outs, twin>>

\* Write(sample) on B, mirrored on solo (not counted in steps)
RecordB(open) ==
    /\ Running
    /\ open
    /\ GetWritePosition(buf["B"]) < max_size - 1
    /\ \E sample \in Samples :
          /\ buf' = [buf EXCEPT !["B"] = Write(buf["B"], sample)]
          /\ solo' = Write(solo, sample)
    /\ last' = [inst |-> "B", op |-> "Write", args |-> <<>>, ret |-> Zero]
    /\ UNCHANGED <<stat, soloStat, fault, steps, hist, outs, twin>>

\* Read() on B, mirrored on solo (not counted in steps)
SeekB(open) ==
    /\ Running
    /\ open
    /\ buf' = [buf EXCEPT !["B"] = Read(buf["B"], Zero).b]
    /\ solo' = Read(solo, Zero).b
    /\ last' = [inst |-> "B", op |-> "Read", args |-> <<>>,
                ret |-> Read(buf["B"], Zero).ret]
    /\ twin' = [NoTwin EXCEPT !.ret = Read(solo, Zero).ret,
                              !.at = GetReadPosition(solo)]
    /\ UNCHANGED <<stat, soloStat, fault, steps, hist, outs>>

\* the same call on solo, for a call on B with outcome r on solo
Mirror(i, r, fixed) ==
    IF i = "B"
    THEN /\ solo' = r.b
         /\ soloStat' = r.st
         /\ twin' = [ret |-> r.ret, at |-> GetReadPosition(solo),
                     fixed |-> fixed,
                     same |-> SameLoop(buf["B"], solo),
                     apart |-> stat.offset5 # soloStat.offset5]
    ELSE UNCHANGED <<solo, soloStat, twin>>

\* Read(clipStart, clipEnd, minClip, randomLength, randomStart) on i, the
\* flags drawn from `flags` and minClip from `clips`
PlayRead5(i, flags, clips) ==
    /\ Running
    /\ \E clipStart \in Knobs, clipEnd \in Knobs, minClip \in clips,
          randomLength \in flags, randomStart \in flags :
          \E r1 \in TwoRands(i, randomStart), r2 \in TwoRands(i, randomLength) :
              /\ Call(i, "Read5", <<>>,
                      Read5(buf[i], stat, clipStart, clipEnd, minClip,
                            randomLength, randomStart, r1, r2, Zero))
              /\ Mirror(i, Read5(solo, soloStat, clipStart, clipEnd, minClip,
                                 randomLength, randomStart, r1, r2, Zero),
                        ~randomLength /\ ~randomStart)
    /\ UNCHANGED <<hist, outs>>

\* Read(clipStart, clipEnd, speed, minClip, randomLength, randomStart) on i
TwoRead6(i) ==
    /\ Running
    /\ \E clipStart \in Knobs, clipEnd \in Knobs, speed \in UnitSpeed,
          minClip \in UnitClip, randomLength \in BOOLEAN, randomStart \in BOOLEAN :
          \E r1 \in TwoRands(i, randomStart), r2 \in TwoRands(i, randomLength) :
              /\ Call(i, "Read6", <<>>,
                      Read6(buf[i], stat, clipStart, clipEnd, speed, minClip,
                            randomLength, randomStart, r1, r2, Zero))
              /\ Mirror(i, Read6(solo, soloStat, clipStart, clipEnd, speed, minClip,
                                 randomLength, randomStart, r1, r2, Zero),
                        FALSE)
    /\ UNCHANGED <<hist, outs>>

\* B is recorded before any read, and moved before any randomized read
TwoWriteB == RecordB(last.op \in {"Init", "Write"})

TwoReadB == SeekB(last.op \in {"Init", "Write", "Read"})

TwoRead5(i) == PlayRead5(i, BOOLEAN, UnitClip)

TwoInit == InitWith(MaxSteps - 1)

TwoNext ==
    \/ TwoWriteA
    \/ TwoWriteB
    \/ TwoReadB
    \/ TwoRead5("A")
    \/ TwoRead5("B")
    \/ TwoRead6("A")
    \/ TwoRead6("B")

TwoSpec == TwoInit /\ [][TwoNext]_vars

\* C7: whatever the calls on A, B is in the state, and B's calls return the
\* values, of the program that makes no call on A.
Independent ==
    /\ buf["B"] = solo
    /\ last.inst = "B" => last.ret = twin.ret

---------------------------------------------------------------------------
\* FixedSpec: A is recorded from Init() and makes one five-argument Read, in
\* any mode; then B is recorded, its read cursor is moved by plain Read calls,
\* and it is played by five-argument Reads with both random flags false.
\* solo and soloStat are B and the statics in the program that makes the same
\* calls on B and none on A.

\* nothing but Init() and Write() on A so far
OnlyA == last.inst = "A" /\ last.op \in {"Init", "Write"}

FixedPerturb ==
    /\ OnlyA
    /\ TwoRead5("A")

FixedWriteB == RecordB(last.inst = "A" \/ last.op = "Write")

FixedReadB == SeekB(last.inst = "A" \/ last.op \in {"Write", "Read"})

FixedRead5 == PlayRead5("B", {FALSE}, MinClips)

FixedNext ==
    \/ TwoWriteA
    \/ FixedPerturb
    \/ FixedWriteB
    \/ FixedReadB
    \/ FixedRead5

FixedSpec == WriteInit /\ [][FixedNext]_vars

\* C10: a five-argument Read with randomLength and randomStart false, made on
\* the same line_, length_ and read_ptr_ in two programs, returns the same
\* sample and leaves the same read_ptr_ in both, whatever calls came before
\* it in either.
FixedReadReproducible ==
    (last.inst = "B" /\ last.op = "Read5" /\ twin.fixed /\ twin.same) =>
        /\ last.ret = twin.ret
        /\ SameLoop(buf["B"], solo)

\* such a read, made off the start of the loop when the calls before it had
\* left different offsets in the statics of the two programs, returned a
\* sample
FixedReadReproducibleWitness ==
    /\ last.inst = "B" /\ last.op = "Read5"
    /\ twin.fixed /\ twin.same /\ twin.apart
    /\ twin.at # 0
    /\ last.ret # Zero

---------------------------------------------------------------------------
\* FadeSpec: from Init(), a run of Write calls, then one Splice() of a build
\* whose fade constant is F, for every F that fits in line_

FadeConstants == 1..max_size

FadeCall ==
    /\ Running
    /\ last.op # "Splice"
    /\ \E F \in FadeConstants :
          Call("A", "Splice", <<F>>, Plain(SpliceFade(buf["A"], F)))
    /\ UNCHANGED Ghosts

FadeWrite ==
    /\ last.op # "Splice"
    /\ RecWrite

FadeNext == FadeWrite \/ FadeCall

FadeSpec == WriteInit /\ [][FadeNext]_vars

\* line_ after Splice() is line_ before it with the head ramp on [0, F) and
\* the tail ramp on (length-1-F, length-1], each sample scaled by i/F
Faded(pre, post, length, F) ==
    /\ \A i \in 0..(F - 1) :
          /\ post[i + 1] = RMul(pre[i + 1], Rat(i, F))
          /\ post[length - i] = RMul(pre[length - i], Rat(i, F))
    /\ \A k \in 1..max_size :
          (k - 1 >= F /\ (k > length \/ k - 1 < length - F)) => post[k] = pre[k]

---------------------------------------------------------------------------
\* C12: after SetReadPosition(p), for any p, 0 <= GetReadPosition() < length.
ReadPositionInLoop ==
    last.op = "SetReadPosition" =>
        /\ 0 <= GetReadPosition(buf["A"])
        /\ GetReadPosition(buf["A"]) < buf["A"].length_

---------------------------------------------------------------------------
\* StepSpec: A is recorded from Init() and then played by MaxSteps speed
\* reads, ReadSpeed(speed) and the six-argument Read with both random flags
\* false, the speed (and clipEnd) recorded in `last`

StepReadSpeed ==
    /\ Running
    /\ \E speed \in Speeds :
          \E g \in Junk(ReadSpeed(buf["A"], speed, Zero).ub) :
              Call("A", "ReadSpeed", <<speed>>,
                   Plain(ReadSpeed(buf["A"], speed, g)))
    /\ UNCHANGED Ghosts

StepRead6 ==
    /\ Running
    /\ \E speed \in Speeds, clipEnd \in Knobs, minClip \in UnitClip :
          \E g \in Junk(Read6(buf["A"], stat, Zero, clipEnd, speed, minClip,
                              FALSE, FALSE, 0, 0, Zero).ub) :
              Call("A", "Read6", <<speed, clipEnd>>,
                   Read6(buf["A"], stat, Zero, clipEnd, speed, minClip,
                         FALSE, FALSE, 0, 0, g))
    /\ UNCHANGED Ghosts

StepNext ==
    \/ TwoWriteA
    \/ StepReadSpeed
    \/ StepRead6

StepSpec == Init /\ [][StepNext]_vars

\* the integer step of the speed read being made
StepOf(op, speed, frac) ==
    IF op = "ReadSpeed" THEN Floor(RAdd(speed, frac)) ELSE Trunc(RAdd(speed, frac))

\* C13: whenever read_ptr_ plus the integer step of a speed read is negative,
\* the read leaves read_ptr_ at modulus - 1: length_ - 1 in ReadSpeed,
\* newEnd - 1 in the six-argument Read.
NegativeStepWrapsToEnd ==
    [][(/\ last'.op \in {"ReadSpeed", "Read6"}
        /\ last'.op = "Read6" => buf["A"].length_ > 1
        /\ GetReadPosition(buf["A"])
              + StepOf(last'.op, last'.args[1], buf["A"].frac_) < 0)
           => GetReadPosition(buf'["A"])
                = (IF last'.op = "ReadSpeed" THEN buf["A"].length_
                   ELSE stat'.newEnd6) - 1]_vars

\* C14: 0 <= frac_ < 1 in every state reached by speed reads with speeds in
\* [-2.0, 2.0].
FracInUnitInterval ==
    /\ ~RLess(buf["A"].frac_, Zero)
    /\ RLess(buf["A"].frac_, RInt(1))

---------------------------------------------------------------------------
\* ClipSpec: A is recorded from Init() and then played by MaxCalls clipped
\* reads, Read(clipEnd, minClip) and Read(clipStart, clipEnd, minClip), with
\* knobs in [0, 1] and minClip >= 1

ClipInit == InitWith(MaxCalls)

ClipNext ==
    \/ TwoWriteA
    \/ DoRead2("A")
    \/ DoRead3("A")

ClipSpec == ClipInit /\ [][ClipNext]_vars

\* C15: no clipped read fetches outside line_[0 .. max_size - 1], whatever
\* minClip >= 1 it is given.
ReadsStayInStorage == fault # "oob"

---------------------------------------------------------------------------
\* C16: a Splice(fadeLength, startPoint, endPoint) with 2*fadeLength < length,
\* startPoint >= 0 and endPoint < length stores only to indices in
\* [0, length).
GuardedSpliceWritesInLoop ==
    [][(last'.op = "Splice3" /\ ~Refused(buf["A"], last'.args))
           => \A idx \in Splice3Writes(buf["A"], last'.args[1], last'.args[2],
                                        last'.args[3]) :
                  idx >= 0 /\ idx < buf["A"].length_]_vars

---------------------------------------------------------------------------
\* WindowSpec: A is recorded from Init() and then played, without end, by the
\* two randomized reads with every clipEnd, minClip and randomLength; the
\* start of the window stays at the loop start (clipStart 0, randomStart
\* false), the speeds are the whole ones, forwards and backwards, and minClip
\* is recorded in `last`

WindowClips == 1..(max_size + 1)
WholeSpeeds == {speed \in Speeds : speed[2] = 1}

WindowRead5 ==
    /\ Running
    /\ \E clipEnd \in Knobs, minClip \in WindowClips, randomLength \in BOOLEAN :
          \E r2 \in Rands(buf["A"], randomLength) :
              \E g \in Junk(Read5(buf["A"], stat, Zero, clipEnd, minClip,
                                  randomLength, FALSE, 0, r2, Zero).ub) :
                  Call("A", "Read5", <<minClip>>,
                       Read5(buf["A"], stat, Zero, clipEnd, minClip,
                             randomLength, FALSE, 0, r2, g))
    /\ UNCHANGED Ghosts

WindowRead6 ==
    /\ Running
    /\ \E clipEnd \in Knobs, speed \in WholeSpeeds, minClip \in WindowClips,
          randomLength \in BOOLEAN :
          \E r2 \in Rands(buf["A"], randomLength) :
              \E g \in Junk(Read6(buf["A"], stat, Zero, clipEnd, speed, minClip,
                                  randomLength, FALSE, 0, r2, Zero).ub) :
                  Call("A", "Read6", <<minClip>>,
                       Read6(buf["A"], stat, Zero, clipEnd, speed, minClip,
                             randomLength, FALSE, 0, r2, g))
    /\ UNCHANGED Ghosts

WindowNext ==
    \/ TwoWriteA
    \/ WindowRead5
    \/ WindowRead6

WindowSpec == WriteInit /\ [][WindowNext]_vars

\* a randomized read that computed a window has just returned
Windowed ==
    \/ last.op = "Read5"
    \/ last.op = "Read6" /\ buf["A"].length_ > 1

\* the window end it advanced the read position by
WindowEnd == IF last.op = "Read5" THEN stat.newEnd5 ELSE stat.newEnd6

\* C17 as stated: after a randomized read, minClip <= newEnd <= length and
\* the read position is in [0, newEnd).
WindowFromMinClip ==
    Windowed =>
        /\ last.args[1] <= WindowEnd
        /\ WindowEnd <= buf["A"].length_
        /\ GetReadPosition(buf["A"]) >= 0
        /\ GetReadPosition(buf["A"]) < WindowEnd

\* C17 amended: after a randomized read on a loop of length >= 1,
\* min(minClip, length) <= newEnd <= length, so newEnd = length whenever
\* minClip >= length, and the read position is in [0, newEnd).
WindowFromMinClipOrLength ==
    Windowed =>
        /\ \/ last.args[1] <= WindowEnd
           \/ buf["A"].length_ <= WindowEnd
        /\ WindowEnd <= buf["A"].length_
        /\ GetReadPosition(buf["A"]) >= 0
        /\ GetReadPosition(buf["A"]) < WindowEnd

\* a speed read with minClip past the length has played a whole-loop window
\* up to its last sample
WindowFromMinClipOrLengthWitness ==
    /\ last.op = "Read6"
    /\ fault = "none"
    /\ buf["A"].length_ = max_size
    /\ last.args[1] > buf["A"].length_
    /\ WindowEnd = buf["A"].length_
    /\ GetReadPosition(buf["A"]) = WindowEnd - 1

---------------------------------------------------------------------------
\* SilenceSpec: A is recorded from Init(), played forwards by the
\* six-argument Read over the whole loop, trimmed once by SetLength or
\* Setlength, and then, if that left a length of 0 or 1, read once by the
\* six-argument Read with every argument combination

SlowSpeeds == {speed \in Speeds : ~RLess(speed, Zero) /\ ~RLess(RInt(1), speed)}

Trimmed == last.op \in {"SetLength", "Setlength"}

SilencePlay ==
    /\ Running
    /\ ~Trimmed /\ outs["A"] = <<>>
    /\ \E speed \in SlowSpeeds, randomStart \in BOOLEAN :
          \E r1 \in Rands(buf["A"], randomStart) :
              \E g \in Junk(Read6(buf["A"], stat, RInt(1), RInt(1), speed, 1,
                                  FALSE, randomStart, r1, 0, Zero).ub) :
                  Call("A", "Read6", <<>>,
                       Read6(buf["A"], stat, RInt(1), RInt(1), speed, 1,
                             FALSE, randomStart, r1, 0, g))
    /\ UNCHANGED Ghosts

SilenceTrim ==
    /\ ~Trimmed /\ outs["A"] = <<>>
    /\ DoSetLength("A") \/ DoSetlength("A")

\* rand() is not reached by a read that returns at the guard
SilenceCall ==
    /\ Running
    /\ Trimmed
    /\ buf["A"].length_ <= 1
    /\ \E clipStart \in Knobs, clipEnd \in Knobs, speed \in Speeds,
          minClip \in MinClips, randomLength \in BOOLEAN, randomStart \in BOOLEAN :
          \E g \in Junk(Read6(buf["A"], stat, clipStart, clipEnd, speed, minClip,
                              randomLength, randomStart, 0, 0, Zero).ub) :
              Call("A", "Read6", <<>>,
                   Read6(buf["A"], stat, clipStart, clipEnd, speed, minClip,
                         randomLength, randomStart, 0, 0, g))
    /\ outs' = [outs EXCEPT !["A"] = Append(@, last'.ret)]
    /\ UNCHANGED <<solo, soloStat, hist, twin>>

SilenceNext ==
    \/ TwoWriteA
    \/ SilencePlay
    \/ SilenceTrim
    \/ SilenceCall

SilenceSpec == WriteInit /\ [][SilenceNext]_vars

\* C18: a six-argument Read entered with length <= 1 returns 0 and leaves
\* line_, length_, both cursors, frac_ and the cached offset and window end
\* as they were.
DegenerateReadIsSilent ==
    [][(last'.op = "Read6" /\ buf["A"].length_ <= 1)
           => /\ last'.ret = Zero
              /\ buf'["A"] = buf["A"]
              /\ stat' = stat
              /\ fault' = "none"]_vars

\* the read was made on a one-sample loop trimmed in mid-traversal, with a
\* fraction pending and a window cached
DegenerateReadIsSilentWitness ==
    /\ outs["A"] = <<Zero>>
    /\ last.op = "Read6"
    /\ buf["A"].length_ = 1
    /\ GetReadPosition(buf["A"]) # 0
    /\ buf["A"].frac_ # Zero
    /\ stat.offset6 = ClickFloor
    /\ stat.newEnd6 = max_size

---------------------------------------------------------------------------
\* RollSpec: A is recorded from Init() and then played, without end, by the
\* five-argument Read with one choice of knobs, minClip and flags, made at
\* the first read and recorded in `last`

RollArgs ==
    IF last.op = "Read5"
    THEN {last.args}
    ELSE {<<clipStart, clipEnd, minClip, randomLength, randomStart>> :
              clipStart \in Knobs, clipEnd \in Knobs, minClip \in MinClips,
              randomLength \in BOOLEAN, randomStart \in BOOLEAN}

RollRead5 ==
    /\ Running
    /\ \E a \in RollArgs :
          \E r1 \in Rands(buf["A"], a[5]), r2 \in Rands(buf["A"], a[4]) :
              \E g \in Junk(Read5(buf["A"], stat, a[1], a[2], a[3], a[4], a[5],
                                  r1, r2, Zero).ub) :
                  Call("A", "Read5", a,
                       Read5(buf["A"], stat, a[1], a[2], a[3], a[4], a[5],
                             r1, r2, g))
    /\ UNCHANGED Ghosts

RollNext ==
    \/ TwoWriteA
    \/ RollRead5

RollSpec == WriteInit /\ [][RollNext]_vars

\* C19: a five-argument Read entered with read_ptr_ # 0 leaves the offset
\* (with randomStart) and the window end (with randomLength) at the values of
\* the call before it, so both change only in a call entered at read_ptr_ = 0.
RolledOnlyAtLoopStart ==
    [][(last'.op = "Read5" /\ GetReadPosition(buf["A"]) # 0)
           => /\ last'.args[5] => stat'.offset5 = stat.offset5
              /\ last'.args[4] => stat'.newEnd5 = stat.newEnd5]_vars

\* a read with both flags set was entered past the loop start, with a rolled
\* offset and the whole loop as its window
RolledOnlyAtLoopStartWitness ==
    /\ last.op = "Read5"
    /\ fault = "none"
    /\ last.args[4] /\ last.args[5]
    /\ GetReadPosition(buf["A"]) = max_size - 1
    /\ stat.offset5 # 0
    /\ stat.newEnd5 = max_size

---------------------------------------------------------------------------
\* GrowSpec: from Init(), Write calls in any number and order with SetLength
\* and Setlength calls, so that the write cursor wraps and the length is
\* trimmed below it

GrowNext ==
    \/ DoWrite("A")
    \/ DoSetLength("A")
    \/ DoSetlength("A")

GrowSpec == WriteInit /\ [][GrowNext]_vars

\* C20: a Write never lowers length_, and leaves a length_ of max_size at
\* max_size.
WriteNeverShrinks ==
    [][last'.op = "Write"
           => /\ buf'["A"].length_ >= buf["A"].length_
              /\ buf["A"].length_ = max_size => buf'["A"].length_ = max_size]_vars

\* a Write has wrapped the cursor to 0 over a loop trimmed to one sample
WriteNeverShrinksWitness ==
    /\ last.op = "Write"
    /\ GetWritePosition(buf["A"]) = 0
    /\ buf["A"].line_[max_size] # Zero
    /\ buf["A"].length_ = 1

====
